---- MODULE Spec2Model ----
(***************************************************************************)
(* Model of lamose_leads/scraper.py: the email extractor (EMAIL_RE,        *)
(* clean_emails, extract_emails), the website scraper (scrape_websites),   *)
(* the search collector (scrape_google_search), the file loader            *)
(* (scrape_from_file), the result writer (save_csv) and the command        *)
(* interface (main).                                                       *)
(*                                                                         *)
(* Python strings are sequences of one-character strings, so that lower(), *)
(* strip(), rstrip(), split(), endswith(), join() and the regular          *)
(* expression are computed character by character.  An optional value      *)
(* (None or a value) is <<>> or <<v>>.                                     *)
(***************************************************************************)
EXTENDS Integers, Sequences, FiniteSets, TLC

VARIABLES
    entry,          \* the function the run was entered through
    pc,             \* position of the control flow
    args,           \* argparse namespace of main
    fs,             \* file system: path -> optional file
    console,        \* messages printed by main and save_csv
    text,           \* extract_emails: its argument
    raw,            \* clean_emails: its argument
    cleaned,        \* clean_emails: its return value
    urls,           \* scrape_websites: its argument
    idx,            \* scrape_websites: 1-based position of the for loop in urls
    url,            \* scrape_websites: the stripped URL being processed
    emails,         \* scrape_websites: emails of the URL being processed
    results,        \* scrape_websites: the records; main: the returned records
    query,          \* scrape_google_search: its argument
    limit,          \* scrape_google_search: its argument
    page_num,       \* scrape_google_search: loop variable of range(pages_needed)
    collected_urls, \* scrape_google_search: the running collection of links
    fetchLog,       \* every fetcher.get call so far, in order, with its outcome
    scrapeCalls,    \* number of calls of scrape_websites
    saveCalls,      \* number of calls of save_csv
    fileReads       \* number of Path.read_text calls

vars == <<entry, pc, args, fs, console, text, raw, cleaned, urls, idx, url,
          emails, results, query, limit, page_num, collected_urls, fetchLog,
          scrapeCalls, saveCalls, fileReads>>

-----------------------------------------------------------------------------
(* Bounds of the model *)

MaxRaw == 3
MaxUrls == 2
MaxLimit == 20

-----------------------------------------------------------------------------
(* Python str and list primitives *)

None == <<>>
Some(v) == <<v>>

UpperLetters == <<"A", "B", "C", "D", "E", "F", "G", "H", "I", "J", "K", "L", "M", "N", "O", "P", "Q", "R", "S", "T", "U", "V", "W", "X", "Y", "Z">>
LowerLetters == <<"a", "b", "c", "d", "e", "f", "g", "h", "i", "j", "k", "l", "m", "n", "o", "p", "q", "r", "s", "t", "u", "v", "w", "x", "y", "z">>
DigitChars == <<"0", "1", "2", "3", "4", "5", "6", "7", "8", "9">>

Range(s) == {s[k] : k \in 1..Len(s)}

Letters == Range(UpperLetters) \cup Range(LowerLetters)
Digits == Range(DigitChars)
Whitespace == {" ", "\t", "\n", "\r"}

char_lower(c) == IF \E k \in 1..Len(UpperLetters) : UpperLetters[k] = c THEN LowerLetters[CHOOSE k \in 1..Len(UpperLetters) : UpperLetters[k] = c] ELSE c

str_lower(s) == [k \in 1..Len(s) |-> char_lower(s[k])]

RECURSIVE str_lstrip(_, _)
str_lstrip(s, chars) == IF s = <<>> \/ s[1] \notin chars THEN s ELSE str_lstrip(Tail(s), chars)

RECURSIVE str_rstrip(_, _)
str_rstrip(s, chars) == IF s = <<>> \/ s[Len(s)] \notin chars THEN s ELSE str_rstrip(SubSeq(s, 1, Len(s) - 1), chars)

str_strip(s) == str_rstrip(str_lstrip(s, Whitespace), Whitespace)

str_startswith(s, prefix) == Len(s) >= Len(prefix) /\ SubSeq(s, 1, Len(prefix)) = prefix

str_endswith(s, suffix) == Len(s) >= Len(suffix) /\ SubSeq(s, Len(s) - Len(suffix) + 1, Len(s)) = suffix

str_contains(s, sub) == \E k \in 1..(Len(s) - Len(sub) + 1) : SubSeq(s, k, k + Len(sub) - 1) = sub

str_replace(s, old, new) == [k \in 1..Len(s) |-> IF s[k] = old THEN new ELSE s[k]]

\* s.split(sep)[-1] for a one-character sep: what follows the last sep, or s
split_last(s, sep) == IF \E k \in 1..Len(s) : s[k] = sep THEN SubSeq(s, 1 + CHOOSE k \in 1..Len(s) : s[k] = sep /\ \A j \in (k + 1)..Len(s) : s[j] # sep, Len(s)) ELSE s

RECURSIVE str_join(_, _)
str_join(sep, parts) == IF parts = <<>> THEN <<>> ELSE IF Len(parts) = 1 THEN parts[1] ELSE parts[1] \o sep \o str_join(sep, Tail(parts))

RECURSIVE int_str(_)
int_str(n) == IF n < 10 THEN <<DigitChars[n + 1]>> ELSE int_str(n \div 10) \o <<DigitChars[(n % 10) + 1]>>

\* seq[:n]
slice_to(s, n) == IF n >= 0 THEN SubSeq(s, 1, IF n < Len(s) THEN n ELSE Len(s)) ELSE SubSeq(s, 1, Len(s) + n)

\* str.splitlines() for the line boundaries \n, \r\n and \r
RECURSIVE splitlines_from(_, _)
splitlines_from(s, line) == IF s = <<>> THEN (IF line = <<>> THEN <<>> ELSE <<line>>) ELSE IF s[1] = "\r" /\ Len(s) >= 2 /\ s[2] = "\n" THEN <<line>> \o splitlines_from(Tail(Tail(s)), <<>>) ELSE IF s[1] \in {"\n", "\r"} THEN <<line>> \o splitlines_from(Tail(s), <<>>) ELSE splitlines_from(Tail(s), Append(line, s[1]))

str_splitlines(s) == splitlines_from(s, <<>>)

-----------------------------------------------------------------------------
(* Email extractor *)

LocalChars == Letters \cup Digits \cup {".", "_", "%", "+", "-"}
DomainChars == Letters \cup Digits \cup {".", "-"}

\* length of the longest run of characters of class cs that starts at s[p]
RECURSIVE run_len(_, _, _)
run_len(s, p, cs) == IF p > Len(s) \/ s[p] \notin cs THEN 0 ELSE 1 + run_len(s, p + 1, cs)

\* EMAIL_RE.match at position p: the index of the last character of the
\* match, 0 when there is none.  The local part is the whole run of
\* LocalChars (no shorter one is followed by "@"); the domain labels take
\* the most characters k such that "." and two letters follow, and the last
\* label then takes every letter that follows.
email_match_end(s, p) ==
    LET n == run_len(s, p, LocalChars)
        d == p + n + 1
        m == run_len(s, d, DomainChars)
        ks == {k \in 1..(m - 3) : s[d + k] = "." /\ s[d + k + 1] \in Letters /\ s[d + k + 2] \in Letters}
        k == CHOOSE x \in ks : \A y \in ks : y <= x
    IN  IF n = 0 \/ p + n > Len(s) \/ s[p + n] # "@" \/ ks = {} THEN 0 ELSE d + k + run_len(s, d + k + 1, Letters)

RECURSIVE findall_from(_, _)
findall_from(s, p) ==
    IF p > Len(s) THEN <<>>
    ELSE LET e == email_match_end(s, p)
         IN  IF e = 0 THEN findall_from(s, p + 1) ELSE <<SubSeq(s, p, e)>> \o findall_from(s, e + 1)

EMAIL_RE_findall(s) == findall_from(s, 1)

SKIP_DOMAINS == {
    <<"e", "x", "a", "m", "p", "l", "e", ".", "c", "o", "m">>,
    <<"s", "e", "n", "t", "r", "y", ".", "i", "o">>,
    <<"w", "i", "x", ".", "c", "o", "m">>,
    <<"s", "q", "u", "a", "r", "e", "s", "p", "a", "c", "e", ".", "c", "o", "m">>,
    <<"w", "o", "r", "d", "p", "r", "e", "s", "s", ".", "c", "o", "m">>,
    <<"s", "h", "o", "p", "i", "f", "y", ".", "c", "o", "m">>,
    <<"g", "m", "a", "i", "l", ".", "c", "o", "m">>,
    <<"y", "a", "h", "o", "o", ".", "c", "o", "m">>,
    <<"h", "o", "t", "m", "a", "i", "l", ".", "c", "o", "m">>,
    <<"p", "l", "a", "c", "e", "h", "o", "l", "d", "e", "r", ".", "c", "o", "m">>,
    <<"y", "o", "u", "r", "d", "o", "m", "a", "i", "n", ".", "c", "o", "m">> }

\* the loop of clean_emails over raw[k..], with the list out built so far
\* (seen holds exactly the elements of out)
RECURSIVE clean_loop(_, _)
clean_loop(rest, out) ==
    IF rest = <<>> THEN out
    ELSE LET e == str_strip(str_lower(rest[1]))
             domain == split_last(e, "@")
         IN  IF domain \in SKIP_DOMAINS THEN clean_loop(Tail(rest), out)
             ELSE IF e \notin Range(out) THEN clean_loop(Tail(rest), Append(out, e))
             ELSE clean_loop(Tail(rest), out)

NotSkipped(e) == split_last(e, "@") \notin SKIP_DOMAINS

\* faulty variant of clean_emails: the seen set is forgotten
clean_emails_NoSeen(r) == SelectSeq([k \in 1..Len(r) |-> str_strip(str_lower(r[k]))], NotSkipped)

clean_emails(r) == clean_loop(r, <<>>)

extract_emails(t) == clean_emails(EMAIL_RE_findall(t))

-----------------------------------------------------------------------------
(* Inputs of the model and the outcomes of the fetch library *)

SeqsUpTo(S, n) == UNION {[1..k -> S] : k \in 0..n}

AddressPool == {
    <<"S", "a", "l", "e", "s", "@", "S", "h", "o", "p", ".", "c", "o", "m">>,
    <<"s", "a", "l", "e", "s", "@", "s", "h", "o", "p", ".", "c", "o", "m">>,
    <<"s", "u", "p", "p", "o", "r", "t", "@", "g", "m", "a", "i", "l", ".", "c", "o", "m">>,
    <<"B", "o", "b", "@", "G", "M", "A", "I", "L", ".", "c", "o", "m">>,
    <<"i", "n", "f", "o", "@", "a", ".", "c", "o">>,
    <<"x", "@", "m", ".", "w", "i", "x", ".", "c", "o", "m">> }

\* "write to support@gmail.com"
TextDenied == <<"w", "r", "i", "t", "e", " ", "t", "o", " ", "s", "u", "p", "p", "o", "r", "t", "@", "g", "m", "a", "i", "l", ".", "c", "o", "m">>
\* "Contact us at Sales@Shop.com or support@gmail.com"
TextScenario == <<"C", "o", "n", "t", "a", "c", "t", " ", "u", "s", " ", "a", "t", " ", "S", "a", "l", "e", "s", "@", "S", "h", "o", "p", ".", "c", "o", "m", " ", "o", "r", " ", "s", "u", "p", "p", "o", "r", "t", "@", "g", "m", "a", "i", "l", ".", "c", "o", "m">>
\* "info@a.co INFO@A.co x@wix.com ask@b.io"
TextTwo == <<"i", "n", "f", "o", "@", "a", ".", "c", "o", " ", "I", "N", "F", "O", "@", "A", ".", "c", "o", " ", "x", "@", "w", "i", "x", ".", "c", "o", "m", " ", "a", "s", "k", "@", "b", ".", "i", "o">>

TextPool == {TextDenied, TextScenario, TextTwo}

\* "http://a.co", " http://b.co/ ", "  ", "http://a.co/contact/"
UrlPool == {
    <<"h", "t", "t", "p", ":", "/", "/", "a", ".", "c", "o">>,
    <<" ", "h", "t", "t", "p", ":", "/", "/", "b", ".", "c", "o", "/", " ">>,
    <<" ", " ">>,
    <<"h", "t", "t", "p", ":", "/", "/", "a", ".", "c", "o", "/", "c", "o", "n", "t", "a", "c", "t", "/">> }

\* "shoes", "red shoes"
QueryPool == {<<"s", "h", "o", "e", "s">>, <<"r", "e", "d", " ", "s", "h", "o", "e", "s">>}

LimitPool == (0 - 1)..MaxLimit

\* a fetched page: its markup and the href values of its a[href] elements
NoPage == [html_content |-> <<>>, links |-> <<>>]

SitePages == {[html_content |-> t, links |-> <<>>] : t \in TextPool}

\* "http://s<k>.co"
site_link(k) == <<"h", "t", "t", "p", ":", "/", "/", "s">> \o int_str(k) \o <<".", "c", "o">>

GoogleLink == <<"h", "t", "t", "p", "s", ":", "/", "/", "w", "w", "w", ".", "g", "o", "o", "g", "l", "e", ".", "c", "o", "m", "/", "m", "a", "p", "s">>
RelativeLink == <<"/", "a", "b", "o", "u", "t">>
ShopLink == <<"h", "t", "t", "p", ":", "/", "/", "a", ".", "c", "o">>

\* "http://b.co/?ref=google.com"
ReferrerLink == <<"h", "t", "t", "p", ":", "/", "/", "b", ".", "c", "o", "/", "?", "r", "e", "f", "=", "g", "o", "o", "g", "l", "e", ".", "c", "o", "m">>

\* a result page with eleven outbound links, one with the same outbound link
\* twice, and one without anchors
BigSearchPage == [html_content |-> <<>>, links |-> <<RelativeLink, GoogleLink>> \o [k \in 1..10 |-> site_link(k - 1)] \o <<ShopLink>>]
SmallSearchPage == [html_content |-> <<>>, links |-> <<ShopLink, GoogleLink, <<>>, ReferrerLink, ShopLink>>]
EmptySearchPage == [html_content |-> <<>>, links |-> <<>>]

SearchPages == {BigSearchPage, SmallSearchPage, EmptySearchPage}

Paths == {"urls.txt", "missing.txt", "leads_output.csv"}

TextFile(t) == [text |-> t, header |-> <<>>, rows |-> <<>>]
CsvFile(h, r) == [text |-> <<>>, header |-> h, rows |-> r]

\* "http://a.co\r\n \n"
UrlsFileText == <<"h", "t", "t", "p", ":", "/", "/", "a", ".", "c", "o", "\r", "\n", " ", "\n">>

OldOutput == CsvFile(<<"source", "emails", "email_count", "scraped_at">>, <<<<ShopLink, <<>>, 0, 0>>>>)

NoFiles == [p \in Paths |-> None]

FileSystems == {[p \in Paths |-> IF p = "urls.txt" THEN Some(TextFile(UrlsFileText)) ELSE IF p = "leads_output.csv" THEN out ELSE None] : out \in {None, Some(OldOutput)}}

DefaultLimit == 30
DefaultOutput == "leads_output.csv"

NoArgs == [source |-> "", urls |-> None, query |-> None, limit |-> DefaultLimit, file |-> None, output |-> DefaultOutput]

\* the namespaces parse_args can return (--urls takes one or more values)
ArgsPool ==
    {[NoArgs EXCEPT !.source = "website", !.urls = u] : u \in {None} \cup {Some(l) : l \in SeqsUpTo(UrlPool, MaxUrls) \ {<<>>}}}
    \cup {[NoArgs EXCEPT !.source = "google", !.query = q, !.limit = n] : q \in {None, Some(<<>>), Some(<<"r", "e", "d", " ", "s", "h", "o", "e", "s">>)}, n \in {2, DefaultLimit}}
    \cup {[NoArgs EXCEPT !.source = "file", !.file = f] : f \in {None, Some(""), Some("urls.txt"), Some("missing.txt")}}

-----------------------------------------------------------------------------
(* Initial states: one per entry point and input *)

InitCleanEmails ==
    /\ entry = "clean_emails" /\ pc = "clean_emails"
    /\ args = NoArgs /\ fs = NoFiles /\ console = <<>>
    /\ text = <<>> /\ raw \in SeqsUpTo(AddressPool, MaxRaw) /\ cleaned = <<>>
    /\ urls = <<>> /\ idx = 1 /\ url = <<>> /\ emails = <<>> /\ results = <<>>
    /\ query = <<>> /\ limit = 0 /\ page_num = 0 /\ collected_urls = <<>>
    /\ fetchLog = <<>> /\ scrapeCalls = 0 /\ saveCalls = 0 /\ fileReads = 0

InitExtractEmails ==
    /\ entry = "extract_emails" /\ pc = "extract_emails"
    /\ args = NoArgs /\ fs = NoFiles /\ console = <<>>
    /\ text \in TextPool /\ raw = <<>> /\ cleaned = <<>>
    /\ urls = <<>> /\ idx = 1 /\ url = <<>> /\ emails = <<>> /\ results = <<>>
    /\ query = <<>> /\ limit = 0 /\ page_num = 0 /\ collected_urls = <<>>
    /\ fetchLog = <<>> /\ scrapeCalls = 0 /\ saveCalls = 0 /\ fileReads = 0

InitScrapeWebsites ==
    /\ entry = "scrape_websites" /\ pc = "scrape_loop"
    /\ args = NoArgs /\ fs = NoFiles /\ console = <<>>
    /\ text = <<>> /\ raw = <<>> /\ cleaned = <<>>
    /\ urls \in SeqsUpTo(UrlPool, MaxUrls) /\ idx = 1 /\ url = <<>> /\ emails = <<>> /\ results = <<>>
    /\ query = <<>> /\ limit = 0 /\ page_num = 0 /\ collected_urls = <<>>
    /\ fetchLog = <<>> /\ scrapeCalls = 1 /\ saveCalls = 0 /\ fileReads = 0

InitScrapeGoogleSearch ==
    /\ entry = "scrape_google_search" /\ pc = "search_loop"
    /\ args = NoArgs /\ fs = NoFiles /\ console = <<>>
    /\ text = <<>> /\ raw = <<>> /\ cleaned = <<>>
    /\ urls = <<>> /\ idx = 1 /\ url = <<>> /\ emails = <<>> /\ results = <<>>
    /\ query \in QueryPool /\ limit \in LimitPool /\ page_num = 0 /\ collected_urls = <<>>
    /\ fetchLog = <<>> /\ scrapeCalls = 0 /\ saveCalls = 0 /\ fileReads = 0

InitMain ==
    /\ entry = "main" /\ pc = "main"
    /\ args \in ArgsPool /\ fs \in FileSystems /\ console = <<>>
    /\ text = <<>> /\ raw = <<>> /\ cleaned = <<>>
    /\ urls = <<>> /\ idx = 1 /\ url = <<>> /\ emails = <<>> /\ results = <<>>
    /\ query = <<>> /\ limit = 0 /\ page_num = 0 /\ collected_urls = <<>>
    /\ fetchLog = <<>> /\ scrapeCalls = 0 /\ saveCalls = 0 /\ fileReads = 0

Init == InitCleanEmails \/ InitExtractEmails \/ InitScrapeWebsites \/ InitScrapeGoogleSearch \/ InitMain

-----------------------------------------------------------------------------
(* clean_emails and extract_emails as operations *)

CleanEmails ==
    /\ pc = "clean_emails"
    /\ cleaned' = clean_emails(raw)
    /\ pc' = "done"
    /\ UNCHANGED <<entry, args, fs, console, text, raw, urls, idx, url, emails, results, query, limit, page_num, collected_urls, fetchLog, scrapeCalls, saveCalls, fileReads>>

ExtractEmails ==
    /\ pc = "extract_emails"
    /\ raw' = EMAIL_RE_findall(text)
    /\ cleaned' = extract_emails(text)
    /\ pc' = "done"
    /\ UNCHANGED <<entry, args, fs, console, text, urls, idx, url, emails, results, query, limit, page_num, collected_urls, fetchLog, scrapeCalls, saveCalls, fileReads>>

-----------------------------------------------------------------------------
(* scrape_websites *)

PrimaryTimeout == 15
ContactTimeout == 10

Fetch(fetcher, u, timeout, outcome, page) == [fetcher |-> fetcher, url |-> u, timeout |-> timeout, outcome |-> outcome, page |-> page]

\* datetime.now(): the number of fetches made so far serves as the clock
Now(log) == Len(log)

LeadRecord(u, em, now) == [source |-> u, emails |-> IF em # <<>> THEN str_join(<<",", " ">>, em) ELSE <<>>, email_count |-> Len(em), scraped_at |-> now]

FailureRecord(u, now) == [source |-> u, emails |-> <<>>, email_count |-> 0, scraped_at |-> now]

\* faulty variant of TryContact: the trailing slash is not removed
TryContact_NoRstrip(em, u) == em = <<>> /\ ~str_endswith(u, <<"/", "c", "o", "n", "t", "a", "c", "t">>)

\* the condition of the /contact fallback
TryContact(em, u) == em = <<>> /\ ~str_endswith(str_rstrip(u, {"/"}), <<"/", "c", "o", "n", "t", "a", "c", "t">>)

contact_url(u) == str_rstrip(u, {"/"}) \o <<"/", "c", "o", "n", "t", "a", "c", "t">>

\* the call scrape_websites(list): fetcher and results are set up
CallScrapeWebsites(list) ==
    /\ urls' = list /\ idx' = 1 /\ url' = <<>> /\ emails' = <<>> /\ results' = <<>>
    /\ scrapeCalls' = scrapeCalls + 1
    /\ pc' = "scrape_loop"

\* the for loop is at urls[idx]
AtUrl == pc = "scrape_loop" /\ Len(urls) <= MaxUrls /\ idx <= Len(urls)

ScrapeSkipBlank ==
    /\ AtUrl
    /\ str_strip(urls[idx]) = <<>>
    /\ idx' = idx + 1
    /\ UNCHANGED <<entry, pc, args, fs, console, text, raw, cleaned, urls, url, emails, results, query, limit, page_num, collected_urls, fetchLog, scrapeCalls, saveCalls, fileReads>>

ScrapePrimaryNone ==
    /\ AtUrl
    /\ str_strip(urls[idx]) # <<>>
    /\ url' = str_strip(urls[idx])
    /\ fetchLog' = Append(fetchLog, Fetch("Fetcher", url', PrimaryTimeout, "none", NoPage))
    /\ idx' = idx + 1
    /\ UNCHANGED <<entry, pc, args, fs, console, text, raw, cleaned, urls, emails, results, query, limit, page_num, collected_urls, scrapeCalls, saveCalls, fileReads>>

\* faulty variant of ScrapePrimaryRaise: the exception leaves scrape_websites
ScrapePrimaryRaise_Propagates ==
    /\ AtUrl
    /\ str_strip(urls[idx]) # <<>>
    /\ url' = str_strip(urls[idx])
    /\ fetchLog' = Append(fetchLog, Fetch("Fetcher", url', PrimaryTimeout, "raise", NoPage))
    /\ pc' = "raised"
    /\ UNCHANGED <<entry, args, fs, console, text, raw, cleaned, urls, idx, emails, results, query, limit, page_num, collected_urls, scrapeCalls, saveCalls, fileReads>>

ScrapePrimaryRaise ==
    /\ AtUrl
    /\ str_strip(urls[idx]) # <<>>
    /\ url' = str_strip(urls[idx])
    /\ fetchLog' = Append(fetchLog, Fetch("Fetcher", url', PrimaryTimeout, "raise", NoPage))
    /\ results' = Append(results, FailureRecord(url', Now(fetchLog')))
    /\ idx' = idx + 1
    /\ UNCHANGED <<entry, pc, args, fs, console, text, raw, cleaned, urls, emails, query, limit, page_num, collected_urls, scrapeCalls, saveCalls, fileReads>>

ScrapePrimaryPage ==
    /\ AtUrl
    /\ str_strip(urls[idx]) # <<>>
    /\ url' = str_strip(urls[idx])
    /\ \E page \in SitePages :
        /\ fetchLog' = Append(fetchLog, Fetch("Fetcher", url', PrimaryTimeout, "page", page))
        /\ emails' = extract_emails(page.html_content)
        /\ IF TryContact(emails', url')
           THEN pc' = "contact" /\ UNCHANGED <<results, idx>>
           ELSE /\ results' = Append(results, LeadRecord(url', emails', Now(fetchLog')))
                /\ idx' = idx + 1
                /\ pc' = "scrape_loop"
    /\ UNCHANGED <<entry, args, fs, console, text, raw, cleaned, urls, query, limit, page_num, collected_urls, scrapeCalls, saveCalls, fileReads>>

ScrapeContactPage ==
    /\ pc = "contact"
    /\ \E page \in SitePages :
        /\ fetchLog' = Append(fetchLog, Fetch("Fetcher", contact_url(url), ContactTimeout, "page", page))
        /\ emails' = extract_emails(page.html_content)
    /\ results' = Append(results, LeadRecord(url, emails', Now(fetchLog')))
    /\ idx' = idx + 1
    /\ pc' = "scrape_loop"
    /\ UNCHANGED <<entry, args, fs, console, text, raw, cleaned, urls, url, query, limit, page_num, collected_urls, scrapeCalls, saveCalls, fileReads>>

ScrapeContactNone ==
    /\ pc = "contact"
    /\ fetchLog' = Append(fetchLog, Fetch("Fetcher", contact_url(url), ContactTimeout, "none", NoPage))
    /\ results' = Append(results, LeadRecord(url, emails, Now(fetchLog')))
    /\ idx' = idx + 1
    /\ pc' = "scrape_loop"
    /\ UNCHANGED <<entry, args, fs, console, text, raw, cleaned, urls, url, emails, query, limit, page_num, collected_urls, scrapeCalls, saveCalls, fileReads>>

ScrapeContactRaise ==
    /\ pc = "contact"
    /\ fetchLog' = Append(fetchLog, Fetch("Fetcher", contact_url(url), ContactTimeout, "raise", NoPage))
    /\ results' = Append(results, LeadRecord(url, emails, Now(fetchLog')))
    /\ idx' = idx + 1
    /\ pc' = "scrape_loop"
    /\ UNCHANGED <<entry, args, fs, console, text, raw, cleaned, urls, url, emails, query, limit, page_num, collected_urls, scrapeCalls, saveCalls, fileReads>>

\* return results: to main, which goes on to save_csv, or to the caller
ScrapeReturn ==
    /\ pc = "scrape_loop" /\ Len(urls) <= MaxUrls /\ idx > Len(urls)
    /\ pc' = IF entry = "main" THEN "save_csv" ELSE "done"
    /\ UNCHANGED <<entry, args, fs, console, text, raw, cleaned, urls, idx, url, emails, results, query, limit, page_num, collected_urls, fetchLog, scrapeCalls, saveCalls, fileReads>>

-----------------------------------------------------------------------------
(* scrape_google_search *)

SearchTimeout == 20
ResultsPerPage == 10

\* faulty variant of pages_needed: the pages that limit results fill
pages_needed_Ceil(n) == (n + ResultsPerPage - 1) \div ResultsPerPage

pages_needed(n) == (n \div ResultsPerPage) + 1

\* f"https://www.google.com/search?q={query.replace(' ', '+')}&start={start}"
search_url(q, start) == <<"h", "t", "t", "p", "s", ":", "/", "/", "w", "w", "w", ".", "g", "o", "o", "g", "l", "e", ".", "c", "o", "m", "/", "s", "e", "a", "r", "c", "h", "?", "q", "=">> \o str_replace(q, " ", "+") \o <<"&", "s", "t", "a", "r", "t", "=">> \o int_str(start)

\* href.startswith("http") and "google.com" not in href
KeepLink(href) == str_startswith(href, <<"h", "t", "t", "p">>) /\ ~str_contains(href, <<"g", "o", "o", "g", "l", "e", ".", "c", "o", "m">>)

\* the loop over the links of one page: append the kept link, then leave the
\* loop when the collection has limit entries or more
RECURSIVE harvest(_, _, _)
harvest(links, collected, n) ==
    IF links = <<>> THEN collected
    ELSE LET href == links[1]
             next == IF KeepLink(href) THEN Append(collected, href) ELSE collected
         IN  IF Len(next) >= n THEN next ELSE harvest(Tail(links), next, n)

AtSearchPage == pc = "search_loop" /\ page_num < pages_needed(limit)

SearchPage ==
    /\ AtSearchPage
    /\ \E page \in SearchPages :
        /\ fetchLog' = Append(fetchLog, Fetch("StealthyFetcher", search_url(query, page_num * ResultsPerPage), SearchTimeout, "page", page))
        /\ collected_urls' = harvest(page.links, collected_urls, limit)
    /\ page_num' = page_num + 1
    /\ UNCHANGED <<entry, pc, args, fs, console, text, raw, cleaned, urls, idx, url, emails, results, query, limit, scrapeCalls, saveCalls, fileReads>>

SearchPageNone ==
    /\ AtSearchPage
    /\ fetchLog' = Append(fetchLog, Fetch("StealthyFetcher", search_url(query, page_num * ResultsPerPage), SearchTimeout, "none", NoPage))
    /\ pc' = "delegate"
    /\ UNCHANGED <<entry, args, fs, console, text, raw, cleaned, urls, idx, url, emails, results, query, limit, page_num, collected_urls, scrapeCalls, saveCalls, fileReads>>

\* faulty variant of SearchPageRaise: the exception leaves scrape_google_search
SearchPageRaise_Propagates ==
    /\ AtSearchPage
    /\ fetchLog' = Append(fetchLog, Fetch("StealthyFetcher", search_url(query, page_num * ResultsPerPage), SearchTimeout, "raise", NoPage))
    /\ pc' = "raised"
    /\ UNCHANGED <<entry, args, fs, console, text, raw, cleaned, urls, idx, url, emails, results, query, limit, page_num, collected_urls, scrapeCalls, saveCalls, fileReads>>

SearchPageRaise ==
    /\ AtSearchPage
    /\ fetchLog' = Append(fetchLog, Fetch("StealthyFetcher", search_url(query, page_num * ResultsPerPage), SearchTimeout, "raise", NoPage))
    /\ pc' = "delegate"
    /\ UNCHANGED <<entry, args, fs, console, text, raw, cleaned, urls, idx, url, emails, results, query, limit, page_num, collected_urls, scrapeCalls, saveCalls, fileReads>>

SearchLoopEnd ==
    /\ pc = "search_loop" /\ page_num >= pages_needed(limit)
    /\ pc' = "delegate"
    /\ UNCHANGED <<entry, args, fs, console, text, raw, cleaned, urls, idx, url, emails, results, query, limit, page_num, collected_urls, fetchLog, scrapeCalls, saveCalls, fileReads>>

\* results = scrape_websites(collected_urls[:limit])
SearchDelegate ==
    /\ pc = "delegate"
    /\ CallScrapeWebsites(slice_to(collected_urls, limit))
    /\ UNCHANGED <<entry, args, fs, console, text, raw, cleaned, query, limit, page_num, collected_urls, fetchLog, saveCalls, fileReads>>

-----------------------------------------------------------------------------
(* main, scrape_from_file and save_csv *)

Message(m, n, total) == [msg |-> m, records |-> n, emails |-> total]

\* "not v" for an optional string or list: None and the empty value are false
Missing(opt, empty) == IF opt = None THEN TRUE ELSE opt[1] = empty

\* faulty variant of MissingArgument: "is None" instead of "not"
MissingArgument_NoneOnly(a) ==
    IF a.source = "website" THEN a.urls = None
    ELSE IF a.source = "google" THEN a.query = None
    ELSE a.file = None

\* the "if not args.<name>" test of the selected source
MissingArgument(a) ==
    IF a.source = "website" THEN Missing(a.urls, <<>>)
    ELSE IF a.source = "google" THEN Missing(a.query, <<>>)
    ELSE Missing(a.file, "")

ErrorText(source) ==
    IF source = "website" THEN "Error: --urls required for --source website"
    ELSE IF source = "google" THEN "Error: --query required for --source google"
    ELSE "Error: --file required for --source file"

MainMissingArgument ==
    /\ pc = "main"
    /\ MissingArgument(args)
    /\ console' = Append(console, Message(ErrorText(args.source), 0, 0))
    /\ pc' = "done"
    /\ UNCHANGED <<entry, args, fs, text, raw, cleaned, urls, idx, url, emails, results, query, limit, page_num, collected_urls, fetchLog, scrapeCalls, saveCalls, fileReads>>

MainWebsite ==
    /\ pc = "main"
    /\ args.source = "website" /\ ~MissingArgument(args)
    /\ CallScrapeWebsites(args.urls[1])
    /\ UNCHANGED <<entry, args, fs, console, text, raw, cleaned, query, limit, page_num, collected_urls, fetchLog, saveCalls, fileReads>>

MainGoogle ==
    /\ pc = "main"
    /\ args.source = "google" /\ ~MissingArgument(args)
    /\ query' = args.query[1] /\ limit' = args.limit /\ page_num' = 0 /\ collected_urls' = <<>>
    /\ pc' = "search_loop"
    /\ UNCHANGED <<entry, args, fs, console, text, raw, cleaned, urls, idx, url, emails, results, fetchLog, scrapeCalls, saveCalls, fileReads>>

\* the file at a path: None when nothing readable is there
file_at(files, path) == IF path \in DOMAIN files THEN files[path] ELSE None

\* scrape_from_file: read_text, splitlines, scrape_websites
MainFile ==
    /\ pc = "main"
    /\ args.source = "file" /\ ~MissingArgument(args)
    /\ file_at(fs, args.file[1]) # None
    /\ fileReads' = fileReads + 1
    /\ CallScrapeWebsites(str_splitlines(file_at(fs, args.file[1])[1].text))
    /\ UNCHANGED <<entry, args, fs, console, text, raw, cleaned, query, limit, page_num, collected_urls, fetchLog, saveCalls>>

\* scrape_from_file: read_text raises, and nothing catches it
MainFileError ==
    /\ pc = "main"
    /\ args.source = "file" /\ ~MissingArgument(args)
    /\ file_at(fs, args.file[1]) = None
    /\ fileReads' = fileReads + 1
    /\ pc' = "raised"
    /\ UNCHANGED <<entry, args, fs, console, text, raw, cleaned, urls, idx, url, emails, results, query, limit, page_num, collected_urls, fetchLog, scrapeCalls, saveCalls>>

fieldnames == <<"source", "emails", "email_count", "scraped_at">>

\* the row DictWriter writes for a record: its values in fieldnames order
csv_row(r) == <<r.source, r.emails, r.email_count, r.scraped_at>>

RECURSIVE total_emails(_)
total_emails(rs) == IF rs = <<>> THEN 0 ELSE rs[1].email_count + total_emails(Tail(rs))

\* faulty variant of SaveCsv: the header is written for an empty list too
SaveCsv_AlwaysWrites ==
    /\ pc = "save_csv"
    /\ saveCalls' = saveCalls + 1
    /\ fs' = [fs EXCEPT ![args.output] = Some(CsvFile(fieldnames, [k \in 1..Len(results) |-> csv_row(results[k])]))]
    /\ console' = Append(console, Message("Saved", Len(results), total_emails(results)))
    /\ pc' = "done"
    /\ UNCHANGED <<entry, args, text, raw, cleaned, urls, idx, url, emails, results, query, limit, page_num, collected_urls, fetchLog, scrapeCalls, fileReads>>

SaveCsv ==
    /\ pc = "save_csv"
    /\ saveCalls' = saveCalls + 1
    /\ IF results = <<>>
       THEN /\ console' = Append(console, Message("No results to save.", 0, 0))
            /\ fs' = fs
       ELSE /\ fs' = [fs EXCEPT ![args.output] = Some(CsvFile(fieldnames, [k \in 1..Len(results) |-> csv_row(results[k])]))]
            /\ console' = Append(console, Message("Saved", Len(results), total_emails(results)))
    /\ pc' = "done"
    /\ UNCHANGED <<entry, args, text, raw, cleaned, urls, idx, url, emails, results, query, limit, page_num, collected_urls, fetchLog, scrapeCalls, fileReads>>

-----------------------------------------------------------------------------

Next ==
    \/ CleanEmails
    \/ ExtractEmails
    \/ ScrapeSkipBlank
    \/ ScrapePrimaryNone
    \/ ScrapePrimaryRaise
    \/ ScrapePrimaryPage
    \/ ScrapeContactPage
    \/ ScrapeContactNone
    \/ ScrapeContactRaise
    \/ ScrapeReturn
    \/ SearchPage
    \/ SearchPageNone
    \/ SearchPageRaise
    \/ SearchLoopEnd
    \/ SearchDelegate
    \/ MainMissingArgument
    \/ MainWebsite
    \/ MainGoogle
    \/ MainFile
    \/ MainFileError
    \/ SaveCsv

Spec == Init /\ [][Next]_vars

-----------------------------------------------------------------------------
(* Vocabulary of the properties *)

IsSiteFetch(f) == f.fetcher = "Fetcher"
IsSearchFetch(f) == f.fetcher = "StealthyFetcher"

\* the fetches of scrape_websites and of scrape_google_search, in call order
SiteFetches == SelectSeq(fetchLog, IsSiteFetch)
SearchFetches == SelectSeq(fetchLog, IsSearchFetch)

\* scrape_websites tells its two fetches apart by their timeouts
IsPrimary(f) == f.timeout = 15
IsContact(f) == f.timeout = 10

NotBlank(u) == u # <<>>
NonBlankStripped(list) == SelectSeq([k \in 1..Len(list) |-> str_strip(list[k])], NotBlank)

Sources(rs) == [k \in 1..Len(rs) |-> rs[k].source]
FetchedUrls(fetches) == [k \in 1..Len(fetches) |-> fetches[k].url]

NoDuplicates(s) == \A j, k \in 1..Len(s) : j # k => s[j] # s[k]

IsPrefix(s, t) == Len(s) <= Len(t) /\ s = SubSeq(t, 1, Len(s))

\* scrape_websites has returned its records
ScrapeReturned == scrapeCalls > 0 /\ pc \in {"save_csv", "done"}

\* the run goes through scrape_google_search
IsSearchRun == entry = "scrape_google_search" \/ (entry = "main" /\ args.source = "google")

\* the position in results of the record of the primary fetch S[k]: a primary
\* fetch that returns None leaves no record
RecordIndex(S, k) == Cardinality({j \in 1..k : IsPrimary(S[j]) /\ S[j].outcome # "none"})

Joined(em) == IF em = <<>> THEN <<>> ELSE str_join(<<",", " ">>, em)

ContactSuffix == <<"/", "c", "o", "n", "t", "a", "c", "t">>

-----------------------------------------------------------------------------
(* C1: scrape_websites returns exactly one record per non-blank input URL,  *)
(* in input order, record i's source being the i-th non-blank URL stripped; *)
(* a URL whose primary fetch yields no content still gets a record with     *)
(* emails "" and email_count 0.                                             *)

C1_OneRecordPerUrl ==
    ScrapeReturned =>
        /\ Sources(results) = NonBlankStripped(urls)
        /\ \A k \in 1..Len(SiteFetches) :
            (IsPrimary(SiteFetches[k]) /\ SiteFetches[k].outcome = "none") =>
                \E r \in 1..Len(results) : results[r].source = SiteFetches[k].url /\ results[r].emails = <<>> /\ results[r].email_count = 0

-----------------------------------------------------------------------------
(* C2: scrape_websites never raises.  A primary fetch that raises leaves a  *)
(* record with empty emails and email_count 0 for its URL, a fallback fetch *)
(* that raises is swallowed and the record is emitted with empty emails,    *)
(* and every later URL of the list is still fetched.                        *)

C2_FailureIsolation ==
    LET S == SiteFetches
    IN  /\ scrapeCalls > 0 => pc # "raised"
        /\ \A k \in 1..Len(S) :
            (IsPrimary(S[k]) /\ S[k].outcome = "raise") =>
                /\ RecordIndex(S, k) <= Len(results)
                /\ results[RecordIndex(S, k)].source = S[k].url
                /\ results[RecordIndex(S, k)].emails = <<>>
                /\ results[RecordIndex(S, k)].email_count = 0
        /\ \A k \in 1..Len(S) :
            (IsContact(S[k]) /\ S[k].outcome = "raise") =>
                /\ k > 1
                /\ RecordIndex(S, k) <= Len(results)
                /\ results[RecordIndex(S, k)].source = S[k - 1].url
                /\ results[RecordIndex(S, k)].emails = <<>>
                /\ results[RecordIndex(S, k)].email_count = 0
        /\ ScrapeReturned => FetchedUrls(SelectSeq(S, IsPrimary)) = NonBlankStripped(urls)

\* the first URL's primary fetch raised, the second URL's fallback fetch
\* raised, and scrape_websites returned two records
C2_Witness ==
    /\ ScrapeReturned
    /\ Len(SiteFetches) = 3
    /\ IsPrimary(SiteFetches[1]) /\ SiteFetches[1].outcome = "raise"
    /\ IsContact(SiteFetches[3]) /\ SiteFetches[3].outcome = "raise"
    /\ Len(results) = 2

-----------------------------------------------------------------------------
(* C3: clean_emails returns the reference result: every match lowercased,   *)
(* addresses whose domain (after the last "@") is denylisted dropped, the   *)
(* first occurrence of each remaining address kept in order of first        *)
(* appearance.  So the output has no duplicates, no denylisted domain, no   *)
(* uppercase letter, and cleaning it again returns it unchanged.            *)

IsDenylisted(e) == \E d \in SKIP_DOMAINS : str_endswith(e, <<"@">> \o d)

C3_CleanEmailsReference ==
    (pc = "done" /\ entry \in {"clean_emails", "extract_emails"}) =>
        LET lowered == [k \in 1..Len(raw) |-> str_lower(raw[k])]
            first == {k \in 1..Len(raw) : ~IsDenylisted(lowered[k]) /\ \A j \in 1..(k - 1) : lowered[j] # lowered[k]}
            rank(k) == Cardinality({j \in first : j <= k})
        IN  /\ Len(cleaned) = Cardinality(first)
            /\ \A k \in first : cleaned[rank(k)] = lowered[k]
            /\ NoDuplicates(cleaned)
            /\ \A k \in 1..Len(cleaned) : ~IsDenylisted(cleaned[k]) /\ Range(cleaned[k]) \cap Range(UpperLetters) = {}
            /\ clean_emails(cleaned) = cleaned
            /\ text = TextScenario => cleaned = <<<<"s", "a", "l", "e", "s", "@", "s", "h", "o", "p", ".", "c", "o", "m">>>>

\* "Sales@Shop.com", "support@gmail.com", "sales@shop.com" cleaned to the one
\* address "sales@shop.com"
C3_Witness ==
    /\ pc = "done" /\ entry = "clean_emails"
    /\ raw = << <<"S", "a", "l", "e", "s", "@", "S", "h", "o", "p", ".", "c", "o", "m">>, <<"s", "u", "p", "p", "o", "r", "t", "@", "g", "m", "a", "i", "l", ".", "c", "o", "m">>, <<"s", "a", "l", "e", "s", "@", "s", "h", "o", "p", ".", "c", "o", "m">> >>
    /\ cleaned = <<<<"s", "a", "l", "e", "s", "@", "s", "h", "o", "p", ".", "c", "o", "m">>>>

-----------------------------------------------------------------------------
(* C4: per non-blank URL the primary fetch comes first, then at most one    *)
(* fallback fetch of <url without trailing slash>/contact.  The fallback is *)
(* issued exactly when the primary fetch returned a page, no email was      *)
(* extracted from it and the URL without trailing slashes does not end in   *)
(* /contact.  When the fallback returns a page the record holds the emails  *)
(* of the contact page; when the primary page has emails there is no        *)
(* fallback and the record holds the primary page's emails.                 *)

C4_ContactFallback ==
    LET S == SiteFetches
    IN  /\ S # <<>> => IsPrimary(S[1])
        /\ \A k \in 1..Len(S) : IsPrimary(S[k]) =>
            LET found == extract_emails(S[k].page.html_content)
                wanted == S[k].outcome = "page" /\ found = <<>> /\ ~str_endswith(str_rstrip(S[k].url, {"/"}), ContactSuffix)
                followed == k < Len(S) /\ IsContact(S[k + 1])
                pending == k = Len(S) /\ pc = "contact"
                record == results[RecordIndex(S, k)]
            IN  /\ wanted <=> (followed \/ pending)
                /\ (S[k].outcome = "page" /\ ~wanted) =>
                    /\ RecordIndex(S, k) <= Len(results)
                    /\ record.source = S[k].url
                    /\ record.emails = Joined(found)
                    /\ record.email_count = Len(found)
                /\ (followed /\ S[k + 1].outcome = "page") =>
                    LET contact == extract_emails(S[k + 1].page.html_content)
                    IN  /\ RecordIndex(S, k) <= Len(results)
                        /\ record.source = S[k].url
                        /\ record.emails = Joined(contact)
                        /\ record.email_count = Len(contact)
        /\ \A k \in 1..Len(S) : IsContact(S[k]) =>
            /\ k > 1 /\ IsPrimary(S[k - 1])
            /\ S[k].url = str_rstrip(S[k - 1].url, {"/"}) \o ContactSuffix
        /\ ScrapeReturned =>
            /\ FetchedUrls(SelectSeq(S, IsPrimary)) = NonBlankStripped(urls)
            /\ Len(S) <= 2 * Len(NonBlankStripped(urls))

\* a homepage without emails whose /contact page has one email: the record
\* holds that email
C4_Witness ==
    /\ ScrapeReturned
    /\ Len(SiteFetches) = 2 /\ Len(results) = 1
    /\ SiteFetches[1].outcome = "page" /\ extract_emails(SiteFetches[1].page.html_content) = <<>>
    /\ IsContact(SiteFetches[2]) /\ SiteFetches[2].outcome = "page"
    /\ results[1].email_count = 1
    /\ results[1].emails = <<"s", "a", "l", "e", "s", "@", "s", "h", "o", "p", ".", "c", "o", "m">>

-----------------------------------------------------------------------------
(* C5: with limit >= 0 the search requests have the start offsets 0, 10,    *)
(* 20, ... in increasing order; there are never more than                   *)
(* floor(limit / 10) + 1 of them, and exactly that many when every search   *)
(* fetch returns a page, so limit 15 gives the two requests of offsets 0    *)
(* and 10 (and a limit that is a multiple of 10 one page more than          *)
(* limit / 10).  The list handed to scrape_websites is the first entries of *)
(* the collection, at most limit of them, and is what gets scraped.         *)

\* the search loop is over
SearchFinished == IsSearchRun /\ (pc = "delegate" \/ scrapeCalls > 0)

AllPages(fetches) == \A k \in 1..Len(fetches) : fetches[k].outcome = "page"

-----------------------------------------------------------------------------
(* C6: when the argument the selected source requires is missing or empty,  *)
(* main reports an error and returns: no fetch, no file read, no call of    *)
(* save_csv, and the file system stays as it was.                           *)

ArgumentAbsent ==
    /\ entry = "main"
    /\ \/ args.source = "website" /\ args.urls \in {None, Some(<<>>)}
       \/ args.source = "google" /\ args.query \in {None, Some(<<>>)}
       \/ args.source = "file" /\ args.file \in {None, Some("")}

C6_MissingArgument ==
    /\ [](ArgumentAbsent => (fetchLog = <<>> /\ fileReads = 0 /\ saveCalls = 0 /\ scrapeCalls = 0 /\ pc \in {"main", "done"}))
    /\ [](ArgumentAbsent /\ pc = "done" => (Len(console) = 1 /\ console[1].msg = ErrorText(args.source)))
    /\ [][ArgumentAbsent => fs' = fs]_vars

\* --source google without --query: the error is printed and there is no
\* output file
C6_Witness ==
    /\ entry = "main" /\ pc = "done"
    /\ args.source = "google" /\ args.query = None
    /\ console = <<Message("Error: --query required for --source google", 0, 0)>>
    /\ fs["leads_output.csv"] = None
    /\ fetchLog = <<>>

-----------------------------------------------------------------------------
(* C7: save_csv writes the output file if and only if the record list is    *)
(* not empty.  With no record it says so and leaves the file system as it   *)
(* is; otherwise it writes the header source,emails,email_count,scraped_at  *)
(* and one row per record in record order, and reports the sum of           *)
(* email_count over the records.                                            *)

RECURSIVE SumOfCounts(_, _)
SumOfCounts(rs, n) == IF n = 0 THEN 0 ELSE SumOfCounts(rs, n - 1) + rs[n].email_count

C7_SaveCsv ==
    [][pc = "save_csv" =>
        /\ results = <<>> =>
            /\ fs' = fs
            /\ console' = Append(console, Message("No results to save.", 0, 0))
        /\ results # <<>> =>
            /\ \A path \in Paths \ {args.output} : fs'[path] = fs[path]
            /\ fs'[args.output] # None
            /\ fs'[args.output][1].header = <<"source", "emails", "email_count", "scraped_at">>
            /\ Len(fs'[args.output][1].rows) = Len(results)
            /\ \A k \in 1..Len(results) : fs'[args.output][1].rows[k] = <<results[k].source, results[k].emails, results[k].email_count, results[k].scraped_at>>
            /\ console' = Append(console, Message("Saved", Len(results), SumOfCounts(results, Len(results))))
    ]_vars

\* two records, with one and two emails, written to the output file, and a
\* total of three emails reported
C7_Witness ==
    /\ pc = "done" /\ saveCalls = 1
    /\ Len(results) = 2 /\ results[1].email_count = 1 /\ results[2].email_count = 2
    /\ fs[args.output] # None /\ Len(fs[args.output][1].rows) = 2
    /\ fs[args.output] # Some(OldOutput)
    /\ console[Len(console)] = Message("Saved", 2, 3)

-----------------------------------------------------------------------------
(* C8: once the collection has reached limit entries, no further search     *)
(* request is issued and the collection never grows beyond limit entries.   *)
(* Stated for limit >= 1, where the collection reaches the limit by         *)
(* collecting.                                                              *)

C8_StopsAtLimit ==
    [][(IsSearchRun /\ pc = "search_loop" /\ limit >= 1 /\ Len(collected_urls) >= limit) =>
        (SearchFetches' = SearchFetches /\ Len(collected_urls') <= limit)]_vars

-----------------------------------------------------------------------------
(* C9: the list scrape_google_search hands to scrape_websites has no URL    *)
(* twice, so no URL is scraped twice and no two records of a search run     *)
(* share a source.                                                          *)

C9_Deduplicated ==
    (IsSearchRun /\ scrapeCalls > 0) =>
        /\ NoDuplicates(urls)
        /\ NoDuplicates(FetchedUrls(SelectSeq(SiteFetches, IsPrimary)))
        /\ NoDuplicates(Sources(results))

-----------------------------------------------------------------------------
(* C10: a search fetch that yields no response or raises is the last search *)
(* request; scrape_google_search does not raise and still calls             *)
(* scrape_websites exactly once, on the links harvested before the failure. *)
(* In every case the delegated list is a prefix, in encounter order, of the *)
(* harvested links that start with http and do not contain google.com, and  *)
(* has at most limit entries (none when limit is negative).                 *)

IsOutbound(href) == str_startswith(href, <<"h", "t", "t", "p">>) /\ ~str_contains(href, <<"g", "o", "o", "g", "l", "e", ".", "c", "o", "m">>)

RECURSIVE Harvested(_)
Harvested(fetches) == IF fetches = <<>> THEN <<>> ELSE SelectSeq(fetches[1].page.links, IsOutbound) \o Harvested(Tail(fetches))

====
